---- MODULE Spec2Model ----
(***************************************************************************)
(* A state-machine model of xsar.Sentinel1Meta (src/src/xsar/              *)
(* sentinel1_meta.py): the lazily built geolocation grid, the pixel <->    *)
(* geography conversions, the burst segmenter, the named masks with their  *)
(* per-instance caches, the serialized descriptor, and the single /        *)
(* multidataset resolver.                                                  *)
(*                                                                         *)
(* Numbers: grid samples are integers (degrees, lines, pixels); every      *)
(* value computed from them (spline values, affine coefficients, inverse   *)
(* images) is an exact rational <<numerator, denominator>>.                *)
(* Regions on the ground (footprints, mask geometries) are finite sets of  *)
(* <<lon, lat>> integer cells.                                             *)
(***************************************************************************)
EXTENDS Integers, Sequences, FiniteSets, TLC

VARIABLES
    fs,        \* the SAFE product on disk, as the metadata provider reads it
    cls_raw,   \* Sentinel1Meta._mask_features_raw (class attribute)
    heap,      \* the dict objects instances and descriptors refer to
    inst,      \* the constructed Sentinel1Meta instances, in construction order
    descs,     \* the descriptors (minidict) handed out or supplied
    ret,       \* what the last call returned or raised
    ncalls     \* number of calls made so far (bounded)

vars == <<fs, cls_raw, heap, inst, descs, ret, ncalls>>

-----------------------------------------------------------------------------
(* Bounds of the model.                                                    *)

MaxCalls == 4
MaxInst == 2
MaxBursts == 3
MaxLinesPerBurst == 2

-----------------------------------------------------------------------------
(* Python's None and a present value.                                      *)

None == <<>>
Some(v) == <<v>>
IsNone(o) == o = <<>>
Get(o) == o[1]

Ok(v) == [ok |-> TRUE, val |-> v, err |-> "none"]
Raise(e) == [ok |-> FALSE, val |-> None, err |-> e]

-----------------------------------------------------------------------------
(* Exact rational arithmetic standing for the float arithmetic of numpy.   *)

Abs(x) == IF x < 0 THEN -x ELSE x

RECURSIVE GCD(_, _)
GCD(a, b) == IF b = 0 THEN a ELSE GCD(b, a % b)

Rat(n, d) ==
    LET s == IF d < 0 THEN -1 ELSE 1
        g == GCD(Abs(n), Abs(d))
    IN  <<(s * n) \div g, (s * d) \div g>>

RInt(n) == <<n, 1>>
RAdd(p, q) == Rat(p[1] * q[2] + q[1] * p[2], p[2] * q[2])
RNeg(p) == <<-p[1], p[2]>>
RSub(p, q) == RAdd(p, RNeg(q))
RMul(p, q) == Rat(p[1] * q[1], p[2] * q[2])
RDiv(p, q) == Rat(p[1] * q[2], p[2] * q[1])
RLt(p, q) == p[1] * q[2] < q[1] * p[2]
RLe(p, q) == p[1] * q[2] <= q[1] * p[2]
RMod(p, m) == Rat(p[1] % (m * p[2]), p[2])

RECURSIVE SeqSum(_)
SeqSum(s) == IF s = <<>> THEN 0 ELSE Head(s) + SeqSum(Tail(s))

\* every sample of a 2-D variable, flattened
Samples(V) == UNION {{V[i][j] : j \in 1..Len(V[i])} : i \in 1..Len(V)}
MaxOf(S) == CHOOSE v \in S : \A w \in S : v >= w
MinOf(S) == CHOOSE v \in S : \A w \in S : v <= w

-----------------------------------------------------------------------------
(* utils.to_lon180: wrap a longitude to [-180, 180).                       *)

to_lon180(lon) == RSub(RMod(RAdd(lon, RInt(180)), 360), RInt(180))

-----------------------------------------------------------------------------
(* rasterio.transform.from_gcps over every grid sample: the least-squares  *)
(* affine map (atrack, xtrack) -> (longitude, latitude).  On a tensor grid *)
(* the centred atrack and xtrack regressors are orthogonal, so each slope  *)
(* is a ratio of two sums.  Coefficients as in affine.Affine(a,b,c,d,e,f): *)
(*   lon = a*atrack + b*xtrack + c,  lat = d*atrack + e*xtrack + f.        *)

FitPlane(atrack, xtrack, V) ==
    LET na == Len(atrack)
        nx == Len(xtrack)
        Sa == SeqSum(atrack)
        Sx == SeqSum(xtrack)
        da == [i \in 1..na |-> na * atrack[i] - Sa]
        dx == [j \in 1..nx |-> nx * xtrack[j] - Sx]
        Qa == SeqSum([i \in 1..na |-> da[i] * da[i]])
        Qx == SeqSum([j \in 1..nx |-> dx[j] * dx[j]])
        R  == [i \in 1..na |-> SeqSum(V[i])]
        C  == [j \in 1..nx |-> SeqSum([i \in 1..na |-> V[i][j]])]
        ca == Rat(na * SeqSum([i \in 1..na |-> da[i] * R[i]]), nx * Qa)
        cx == Rat(nx * SeqSum([j \in 1..nx |-> dx[j] * C[j]]), na * Qx)
        c0 == RSub(RSub(Rat(SeqSum(R), na * nx), RMul(ca, Rat(Sa, na))),
                   RMul(cx, Rat(Sx, nx)))
    IN  <<ca, cx, c0>>

from_gcps(g) ==
    LET lo == FitPlane(g.atrack, g.xtrack, g.longitude)
        la == FitPlane(g.atrack, g.xtrack, g.latitude)
    IN  [a |-> lo[1], b |-> lo[2], c |-> lo[3],
         d |-> la[1], e |-> la[2], f |-> la[3]]

\* Affine.__mul__ on a point
AffineApply(t, x, y) ==
    <<RAdd(RAdd(RMul(t.a, x), RMul(t.b, y)), t.c),
      RAdd(RAdd(RMul(t.d, x), RMul(t.e, y)), t.f)>>

AffineDet(t) == RSub(RMul(t.a, t.e), RMul(t.b, t.d))

\* Affine.__invert__ (defined when the determinant is not zero)
AffineInvert(t) ==
    LET det == AffineDet(t)
        ia == RDiv(t.e, det)
        ib == RNeg(RDiv(t.b, det))
        id == RNeg(RDiv(t.d, det))
        ie == RDiv(t.a, det)
    IN  [a |-> ia, b |-> ib,
         c |-> RSub(RNeg(RMul(t.c, ia)), RMul(t.f, ib)),
         d |-> id, e |-> ie,
         f |-> RSub(RNeg(RMul(t.c, id)), RMul(t.f, ie))]

-----------------------------------------------------------------------------
(* scipy RectBivariateSpline(kx=1, ky=1): the piecewise-bilinear           *)
(* interpolant through the samples; arguments outside the grid are clamped *)
(* to its border.                                                          *)

Clamp(v, lo, hi) == IF RLt(v, RInt(lo)) THEN RInt(lo)
                    ELSE IF RLt(RInt(hi), v) THEN RInt(hi) ELSE v

\* the knot interval holding v: the last i with knots[i] <= v, below the end
Cell(knots, v) ==
    LET n == Len(knots)
        S == {i \in 1..(n - 1) : RLe(RInt(knots[i]), v)}
    IN  IF S = {} THEN 1 ELSE MaxOf(S)

Lerp(v0, v1, k0, k1, t) ==
    RAdd(RInt(v0), RMul(RInt(v1 - v0), RDiv(RSub(t, RInt(k0)), RInt(k1 - k0))))

RLerp(p0, p1, k0, k1, t) ==
    RAdd(p0, RMul(RSub(p1, p0), RDiv(RSub(t, RInt(k0)), RInt(k1 - k0))))

SplineEv(sp, V, a, x) ==
    LET na == Len(sp.atrack)
        nx == Len(sp.xtrack)
        ac == Clamp(a, sp.atrack[1], sp.atrack[na])
        xc == Clamp(x, sp.xtrack[1], sp.xtrack[nx])
        i == Cell(sp.atrack, ac)
        j == Cell(sp.xtrack, xc)
        lo == Lerp(V[i][j], V[i][j + 1], sp.xtrack[j], sp.xtrack[j + 1], xc)
        hi == Lerp(V[i + 1][j], V[i + 1][j + 1], sp.xtrack[j], sp.xtrack[j + 1], xc)
    IN  RLerp(lo, hi, sp.atrack[i], sp.atrack[i + 1], ac)

-----------------------------------------------------------------------------
(* Ground regions: shapely geometries as finite sets of <<lon, lat>> cells. *)

EmptyPolygon == {}

Box(lon0, lat0, lon1, lat1) ==
    {<<lo, la>> : lo \in lon0..lon1, la \in lat0..lat1}

\* Polygon(corners): the grids of the model are axis-aligned in lon/lat, so
\* the polygon through the four corners is their bounding rectangle
Polygon(corners) ==
    LET lons == {corners[k][1] : k \in 1..Len(corners)}
        lats == {corners[k][2] : k \in 1..Len(corners)}
    IN  Box(MinOf(lons), MinOf(lats), MaxOf(lons), MaxOf(lats))

\* geometry.bounds as the rectangle it spans (empty for an empty geometry)
Bounds(region) ==
    IF region = {} THEN {}
    ELSE Box(MinOf({c[1] : c \in region}), MinOf({c[2] : c \in region}),
             MaxOf({c[1] : c \in region}), MaxOf({c[2] : c \in region}))

unary_union(regions) == UNION regions

Intersects(r1, r2) == r1 \cap r2 # {}

-----------------------------------------------------------------------------
(* Mask names and mask sources.  A source is a cartopy feature handle, a   *)
(* path to a vector file, or something that is neither.                    *)

MaskNames == {"land", "ocean"}

LandFeature == "cartopy:land"
FarFeature == "cartopy:far"
CoastFile == "coast.shp"
BadSource == "not-a-feature"

MaskSources == {LandFeature, FarFeature, CoastFile, BadSource}

IsStr(source) == source = CoastFile
IsFeature(source) == source \in {LandFeature, FarFeature}

\* the geometries a source holds
SourceGeometries(source) ==
    CASE source = LandFeature -> {Box(0, 0, 0, 1), Box(2, 1, 3, 1), Box(7, 7, 8, 8)}
      [] source = FarFeature  -> {Box(7, 7, 8, 8)}
      [] source = CoastFile   -> {Box(1, 0, 1, 0), Box(9, 9, 9, 9)}
      [] OTHER                -> {}

-----------------------------------------------------------------------------
(* Python dict objects live in a heap and are held by reference, so that   *)
(* two holders of one dict see each other's writes.                        *)

DictSet(d, k, v) == [x \in (DOMAIN d) \cup {k} |-> IF x = k THEN v ELSE d[x]]

HeapSet(h, ref, k, v) == [h EXCEPT ![ref] = DictSet(h[ref], k, v)]

Range(s) == {s[i] : i \in 1..Len(s)}

-----------------------------------------------------------------------------
(* The operations on an instance.  Each returns [self, res] (and heap      *)
(* where dicts are written): the instance after the call, and the value    *)
(* returned or the error raised.  An operation that continues from the     *)
(* result of another one takes that result as a parameter.                 *)

(* Sentinel1Meta.geoloc: the geolocation grid, built on first access.      *)

\* the attributes computed when the grid is built
GeolocAttrs(g) ==
    LET na == Len(g.atrack)
        nx == Len(g.xtrack)
        corners == <<<<g.longitude[1][1], g.latitude[1][1]>>,
                     <<g.longitude[1][nx], g.latitude[1][nx]>>,
                     <<g.longitude[na][nx], g.latitude[na][nx]>>,
                     <<g.longitude[na][1], g.latitude[na][1]>>>>
    IN  [footprint |-> corners,
         coverage |-> <<"haversine", corners[2], corners[3],
                        "haversine", corners[1], corners[2]>>,
         approx_transform |-> from_gcps(g)]

BuildGeoloc(g) ==
    [atrack |-> g.atrack, xtrack |-> g.xtrack,
     longitude |-> g.longitude, latitude |-> g.latitude,
     altitude |-> g.altitude, azimuth_time |-> g.azimuth_time,
     attrs |-> GeolocAttrs(g)]

StoreGeoloc(self, g) == [self |-> [self EXCEPT !.geoloc = Some(g)], res |-> Ok(g)]

geoloc(self) ==
    IF self.multidataset
    THEN [self |-> self, res |-> Raise("TypeError")]
    ELSE IF IsNone(self.geoloc)
         THEN StoreGeoloc(self, BuildGeoloc(fs.ann[self.name].grid))
         ELSE [self |-> self, res |-> Ok(Get(self.geoloc))]

\* an attribute of the grid, or the error of the grid access
GeolocAttr(g, attr) ==
    IF g.res.ok THEN [self |-> g.self, res |-> Ok(g.res.val.attrs[attr])] ELSE g

\* Sentinel1Meta._footprints
footprints(self) == fs.footprints

FootprintRegion(g) == [self |-> g.self, res |-> Ok(Polygon(g.res.val.attrs.footprint))]

\* Sentinel1Meta.footprint, as a region
footprint(self) ==
    IF self.multidataset
    THEN [self |-> self, res |-> Ok(unary_union(Range(footprints(self))))]
    ELSE FootprintRegion(geoloc(self))

\* Sentinel1Meta.coverage
coverage(self) ==
    IF self.multidataset
    THEN [self |-> self, res |-> Ok(None)]
    ELSE GeolocAttr(geoloc(self), "coverage")

\* Sentinel1Meta.approx_transform
approx_transform(self) == GeolocAttr(geoloc(self), "approx_transform")

LongitudeSpan(g) ==
    IF g.res.ok
    THEN [self |-> g.self,
          res |-> Ok(MaxOf(Samples(g.res.val.longitude))
                     - MinOf(Samples(g.res.val.longitude)) > 180)]
    ELSE g

\* Sentinel1Meta.cross_antemeridian
cross_antemeridian(self) == LongitudeSpan(geoloc(self))

-----------------------------------------------------------------------------
(* The coordinate transform engine.  Points are given as arrays: a         *)
(* sequence of <<atrack, xtrack>> or <<lon, lat>> pairs of rationals (a    *)
(* scalar call is an array of one).                                        *)

Mod360(V) == [i \in 1..Len(V) |-> [j \in 1..Len(V[i]) |-> V[i][j] % 360]]

\* a variant that keeps the first pair of splines and builds no other
BuildSplinesOnce(self, grid) ==
    [self |-> [self EXCEPT !.geoloc = Some(grid),
                           !.work.splines = IF @ = 0 THEN 1 ELSE @],
     res |-> Ok([atrack |-> grid.atrack, xtrack |-> grid.xtrack,
                 longitude |-> grid.longitude, latitude |-> grid.latitude])]

\* the two RectBivariateSpline objects, built over the grid as it now is
BuildSplines(self, grid) ==
    [self |-> [self EXCEPT !.geoloc = Some(grid), !.work.splines = @ + 1],
     res |-> Ok([atrack |-> grid.atrack, xtrack |-> grid.xtrack,
                 longitude |-> grid.longitude, latitude |-> grid.latitude])]

\* lines 631-632: geoloc['longitude'] = geoloc['longitude'] % 360 writes to
\* the grid the instance holds
WrapGrid(self, grid, cross) ==
    BuildSplines(self, IF cross THEN [grid EXCEPT !.longitude = Mod360(@)] ELSE grid)

SplinesFrom(g) ==
    IF ~g.res.ok THEN g
    ELSE WrapGrid(g.self, g.res.val, cross_antemeridian(g.self).res.val)

\* Sentinel1Meta._dict_coords2ll
dict_coords2ll(self) == SplinesFrom(geoloc(self))

\* the conversion of every point, by the affine map or by the splines
Forward(f, pts, approx) ==
    [k \in 1..Len(pts) |->
        IF approx THEN AffineApply(f, pts[k][1], pts[k][2])
        ELSE <<SplineEv(f, f.longitude, pts[k][1], pts[k][2]),
               SplineEv(f, f.latitude, pts[k][1], pts[k][2])>>]

\* lines 706-707: if self.cross_antemeridian: lon = to_lon180(lon)
Rewrap(self, lonlats, cross) ==
    [self |-> self,
     res |-> Ok([k \in 1..Len(lonlats) |->
                   IF cross THEN <<to_lon180(lonlats[k][1]), lonlats[k][2]>>
                   ELSE lonlats[k]])]

\* lines 697-704: the affine map, or one evaluation of each of the two
\* splines
ConvertWith(src, pts, approx) ==
    IF ~src.res.ok THEN src
    ELSE Rewrap([src.self EXCEPT !.work.evals = IF approx THEN @ ELSE @ + 2],
                Forward(src.res.val, pts, approx),
                cross_antemeridian(src.self).res.val)

\* Sentinel1Meta.coords2ll(atracks, xtracks, approx=...)
coords2ll(self, pts, approx) ==
    ConvertWith(IF approx THEN approx_transform(self) ELSE dict_coords2ll(self),
                pts, approx)

\* Sentinel1Meta._coords2ll_shapely as coords2ll calls it (line 682): the
\* approx flag is not passed on, every vertex goes through the accurate
\* conversion in one array call
coords2ll_shape(self, shape, approx) == coords2ll(self, shape, FALSE)

Inverse(inv, lonlats) ==
    [k \in 1..Len(lonlats) |-> AffineApply(inv, lonlats[k][1], lonlats[k][2])]

\* lines 761-765: the first estimate minus its error
Correct(approx0, identity, self) ==
    [self |-> self,
     res |-> Ok([k \in 1..Len(approx0) |->
                   <<RSub(approx0[k][1], RSub(identity[k][1], approx0[k][1])),
                     RSub(approx0[k][2], RSub(identity[k][2], approx0[k][2]))>>])]

\* lines 757-758: the first estimate sent forward and back again
Identity(inv, approx0, ll) ==
    Correct(approx0, Inverse(inv, ll.res.val),
            [ll.self EXCEPT !.work.inverses = @ + 1])

\* a variant that corrects the corrected estimate once more
Again(inv, r) ==
    Identity(inv, r.res.val, coords2ll(r.self, r.res.val, FALSE))

EstimateTwice(self, inv, approx0) ==
    Again(inv, Identity(inv, approx0, coords2ll(self, approx0, FALSE)))

Estimate(self, inv, approx0) ==
    Identity(inv, approx0, coords2ll(self, approx0, FALSE))

\* line 754: the first estimate, by the inverse of approx_transform
InvertWith(t, lonlats) ==
    IF ~t.res.ok THEN t
    ELSE IF AffineDet(t.res.val) = RInt(0)
    THEN [self |-> t.self, res |-> Raise("TransformNotInvertibleError")]
    ELSE Estimate([t.self EXCEPT !.work.inverses = @ + 1],
                  AffineInvert(t.res.val),
                  Inverse(AffineInvert(t.res.val), lonlats))

\* Sentinel1Meta.ll2coords(lon, lat)
ll2coords(self, lonlats) == InvertWith(approx_transform(self), lonlats)

LineShift(pts, by) ==
    [k \in 1..Len(pts) |-> <<RAdd(pts[k][1], RInt(by)), pts[k][2]>>]

\* the bearing of utils.haversine, kept as the pair of points it is computed
\* from
Bearing(ll1, c2) ==
    IF ~c2.res.ok THEN c2
    ELSE [self |-> c2.self,
          res |-> Ok([k \in 1..Len(ll1) |-> <<"bearing", ll1[k], c2.res.val[k]>>])]

\* a variant that answers with no heading when the first conversion fails
HeadingOrNothing(c1, pts, approx) ==
    IF ~c1.res.ok THEN [self |-> c1.self, res |-> Ok(<<>>)]
    ELSE Bearing(c1.res.val, coords2ll(c1.self, LineShift(pts, 1), approx))

HeadingFrom(c1, pts, approx) ==
    IF ~c1.res.ok THEN c1
    ELSE Bearing(c1.res.val, coords2ll(c1.self, LineShift(pts, 1), approx))

\* Sentinel1Meta.coords2heading(atracks, xtracks, approx=...)
coords2heading(self, pts, approx) ==
    HeadingFrom(coords2ll(self, LineShift(pts, -1), approx), pts, approx)

-----------------------------------------------------------------------------
(* Sentinel1Meta.__init__(name).  A name is a dataset identifier of the    *)
(* SAFE, or "" for the SAFE as a whole.  The instance is multidataset when *)
(* no file of the SAFE belongs to its name; its sub-products' footprints   *)
(* come from the manifest when it gives one per sub-product, and otherwise *)
(* from one child instance built per sub-product.                          *)

\* what an instance has computed so far: spline pairs built, mask features
\* loaded, mask intersections computed, masks answered from the stored
\* polygon, spline evaluations made (one per array call and spline), and
\* applications of the inverse of approx_transform
NoWork == [splines |-> 0, loads |-> 0, intersections |-> 0, hits |-> 0,
           evals |-> 0, inverses |-> 0]

\* lines 109-110: a name without dataset id is the only dataset there is
ResolveName(name) ==
    IF name = "" /\ Len(fs.dsids) = 1 THEN fs.dsids[1] ELSE name

\* Sentinel1Meta.files is empty
FilesEmpty(name) == name \notin Range(fs.dsids)

\* lines 120-123: the manifest does not give one footprint per sub-product
NeedsSubmeta(name) == FilesEmpty(name) /\ Len(fs.footprints) # Len(fs.dsids)

\* a variant whose four mask tables start empty
NewInstanceBare(name, kids, subdatasets, h) ==
    [self |-> [name |-> name,
               multidataset |-> FilesEmpty(name),
               submeta |-> kids,
               subdatasets |-> subdatasets,
               raw |-> Len(h) + 1, feats |-> Len(h) + 2,
               inter |-> Len(h) + 3, geom |-> Len(h) + 4,
               geoloc |-> None,
               work |-> NoWork],
     heap |-> h \o <<<<>>, <<>>, <<>>, <<>>>>]

\* lines 131-138: the four mask tables, the class defaults registered in them
NewInstance(name, kids, subdatasets, h) ==
    [self |-> [name |-> name,
               multidataset |-> FilesEmpty(name),
               submeta |-> kids,
               subdatasets |-> subdatasets,
               raw |-> Len(h) + 1, feats |-> Len(h) + 2,
               inter |-> Len(h) + 3, geom |-> Len(h) + 4,
               geoloc |-> None,
               work |-> NoWork],
     heap |-> h \o <<[k \in DOMAIN cls_raw |-> cls_raw[k]],
                     [k \in DOMAIN cls_raw |-> None],
                     [k \in DOMAIN cls_raw |-> None],
                     [k \in DOMAIN cls_raw |-> None]>>]

\* a variant whose children hold children of their own
WithSubmetaNested(name, kids) ==
    NewInstance(name,
                [k \in 1..Len(kids.metas) |->
                    [footprint(kids.metas[k]).self EXCEPT !.submeta = kids.metas]],
                [k \in 1..Len(kids.metas) |-> footprint(kids.metas[k]).res.val],
                kids.heap)

\* line 124: sub_footprints = [submeta.footprint for submeta in self._submeta]
WithSubmeta(name, kids) ==
    NewInstance(name,
                [k \in 1..Len(kids.metas) |-> footprint(kids.metas[k]).self],
                [k \in 1..Len(kids.metas) |-> footprint(kids.metas[k]).res.val],
                kids.heap)

RECURSIVE Sentinel1Meta_init(_, _, _)

\* Sentinel1Meta(name) for todo = <<>>; for a list todo of names, the
\* instances [Sentinel1Meta(n) for n in todo] (line 123) as [metas, heap]
Sentinel1Meta_init(name, todo, h) ==
    IF todo # <<>>
    THEN LET first == Sentinel1Meta_init(Head(todo), <<>>, h)
             rest == IF Len(todo) = 1 THEN [metas |-> <<>>, heap |-> first.heap]
                     ELSE Sentinel1Meta_init(name, Tail(todo), first.heap)
         IN  [metas |-> <<first.self>> \o rest.metas, heap |-> rest.heap]
    ELSE IF NeedsSubmeta(ResolveName(name))
    THEN WithSubmeta(ResolveName(name), Sentinel1Meta_init(name, fs.dsids, h))
    ELSE NewInstance(ResolveName(name), <<>>,
                     IF FilesEmpty(ResolveName(name)) THEN fs.footprints ELSE <<>>, h)

-----------------------------------------------------------------------------
(* Masks.  Each operation returns [self, heap, res].                       *)

\* a variant that keeps the final polygon of a name already known
set_mask_feature_keeping(self, h, name, feature) ==
    HeapSet(HeapSet(HeapSet(HeapSet(h, self.raw, name, feature),
                            self.inter, name, None),
                    self.geom, name,
                    IF name \in DOMAIN h[self.geom] THEN h[self.geom][name] ELSE None),
            self.feats, name, None)

\* instance-level Sentinel1Meta.set_mask_feature(name, feature)
set_mask_feature_instance(self, h, name, feature) ==
    HeapSet(HeapSet(HeapSet(HeapSet(h, self.raw, name, feature),
                            self.inter, name, None),
                    self.geom, name, None),
            self.feats, name, None)

\* class-level Sentinel1Meta.set_mask_feature(name, feature)
set_mask_feature_class(defaults, name, feature) == DictSet(defaults, name, feature)

\* lines 455-479: a path is read as a vector file through the footprint as
\* a mask; a feature handle is taken as it is
LoadFeature(source, fp) ==
    IF IsStr(source)
    THEN [geoms |-> {g \in SourceGeometries(source) : Intersects(g, fp)}]
    ELSE [geoms |-> SourceGeometries(source)]

StoreFeature(self, h, name, source, fp) ==
    IF ~(IsStr(source) \/ IsFeature(source))
    THEN [self |-> fp.self, heap |-> h, res |-> Raise("TypeError")]
    ELSE [self |-> [fp.self EXCEPT !.work.loads = @ + 1],
          heap |-> HeapSet(h, self.feats, name, Some(LoadFeature(source, fp.res.val))),
          res |-> Ok(LoadFeature(source, fp.res.val))]

\* Sentinel1Meta._get_mask_feature(name)
get_mask_feature(self, h, name) ==
    IF name \notin DOMAIN h[self.feats]
    THEN [self |-> self, heap |-> h, res |-> Raise("KeyError")]
    ELSE IF ~IsNone(h[self.feats][name])
    THEN [self |-> self, heap |-> h, res |-> Ok(Get(h[self.feats][name]))]
    ELSE IF name \notin DOMAIN h[self.raw]
    THEN [self |-> self, heap |-> h, res |-> Raise("KeyError")]
    ELSE StoreFeature(self, h, name, h[self.raw][name],
                      IF IsStr(h[self.raw][name]) THEN footprint(self)
                      ELSE [self |-> self, res |-> Ok({})])

\* lines 445-447: an empty selection becomes a series of one empty polygon
Selection(geoms, extent) ==
    IF {g \in geoms : Intersects(g, extent)} = {} THEN {EmptyPolygon}
    ELSE {g \in geoms : Intersects(g, extent)}

StoreSelection(h, name, geoms, fp) ==
    [self |-> [fp.self EXCEPT !.work.intersections = @ + 1],
     heap |-> HeapSet(h, fp.self.inter, name,
                      Some(Selection(geoms, Bounds(fp.res.val)))),
     res |-> Ok(Selection(geoms, Bounds(fp.res.val)))]

SelectFrom(feat, name) ==
    IF ~feat.res.ok THEN feat
    ELSE StoreSelection(feat.heap, name, feat.res.val.geoms, footprint(feat.self))

\* Sentinel1Meta._get_mask_intersecting_geometries(name)
get_mask_intersecting_geometries(self, h, name) ==
    IF name \notin DOMAIN h[self.inter]
    THEN [self |-> self, heap |-> h, res |-> Raise("KeyError")]
    ELSE IF ~IsNone(h[self.inter][name])
    THEN [self |-> self, heap |-> h, res |-> Ok(Get(h[self.inter][name]))]
    ELSE SelectFrom(get_mask_feature(self, h, name), name)

\* a variant that stores nothing when the cut is empty
StorePolygonOrNull(h, name, gseries, fp) ==
    [self |-> fp.self,
     heap |-> HeapSet(h, fp.self.geom, name,
                      IF unary_union(gseries) \cap fp.res.val = {}
                      THEN None
                      ELSE Some(unary_union(gseries) \cap fp.res.val)),
     res |-> Ok(unary_union(gseries) \cap fp.res.val)]

\* lines 433-439: the union of the series cut by the footprint; an empty
\* result is stored as an empty polygon
StorePolygon(h, name, gseries, fp) ==
    [self |-> fp.self,
     heap |-> HeapSet(h, fp.self.geom, name,
                      Some(IF unary_union(gseries) \cap fp.res.val = {}
                           THEN EmptyPolygon
                           ELSE unary_union(gseries) \cap fp.res.val)),
     res |-> Ok(IF unary_union(gseries) \cap fp.res.val = {}
                THEN EmptyPolygon
                ELSE unary_union(gseries) \cap fp.res.val)]

CutFrom(gs, name) ==
    IF ~gs.res.ok THEN gs
    ELSE StorePolygon(gs.heap, name, gs.res.val, footprint(gs.self))

\* Sentinel1Meta.get_mask(name)
get_mask(self, h, name) ==
    IF name \notin DOMAIN h[self.geom]
    THEN [self |-> self, heap |-> h, res |-> Raise("KeyError")]
    ELSE IF ~IsNone(h[self.geom][name])
    THEN [self |-> [self EXCEPT !.work.hits = @ + 1], heap |-> h,
          res |-> Ok(Get(h[self.geom][name]))]
    ELSE CutFrom(get_mask_intersecting_geometries(self, h, name), name)

-----------------------------------------------------------------------------
(* The serialized descriptor.                                              *)

\* a variant that copies the three caches as they are
dict_keeping(self, h) ==
    [desc |-> [name |-> self.name, raw |-> self.raw,
               feats |-> Len(h) + 1, inter |-> Len(h) + 2, geom |-> Len(h) + 3],
     heap |-> h \o <<h[self.feats], h[self.inter], h[self.geom]>>]

\* Sentinel1Meta.dict: the definitions dict itself, and three new dicts of
\* empty cache slots
dict(self, h) ==
    [desc |-> [name |-> self.name, raw |-> self.raw,
               feats |-> Len(h) + 1, inter |-> Len(h) + 2, geom |-> Len(h) + 3],
     heap |-> h \o <<[k \in DOMAIN h[self.raw] |-> None],
                     [k \in DOMAIN h[self.raw] |-> None],
                     [k \in DOMAIN h[self.raw] |-> None]>>]

\* lines 876-878: the checks Sentinel1Meta.from_dict makes before it builds
\* anything; "none" when they pass
from_dict_check(minidict, h) ==
    IF \E k \in DOMAIN h[minidict.raw] :
           k \notin DOMAIN h[minidict.geom] \/ k \notin DOMAIN h[minidict.feats]
    THEN "KeyError"
    ELSE IF \E k \in DOMAIN h[minidict.raw] :
                ~IsNone(h[minidict.geom][k]) \/ ~IsNone(h[minidict.feats][k])
    THEN "AssertionError"
    ELSE "none"

\* line 881: new.__dict__.update(minidict), the descriptor's own dicts
Update(new, minidict) ==
    [self |-> [new.self EXCEPT !.name = minidict.name,
                               !.raw = minidict.raw,
                               !.feats = minidict.feats,
                               !.inter = minidict.inter,
                               !.geom = minidict.geom],
     heap |-> new.heap,
     res |-> Ok(None)]

\* Sentinel1Meta.from_dict(minidict)
from_dict(minidict, h) ==
    IF from_dict_check(minidict, h) # "none"
    THEN [self |-> None, heap |-> h, res |-> Raise(from_dict_check(minidict, h))]
    ELSE Update(Sentinel1Meta_init(minidict.name, <<>>, h), minidict)

-----------------------------------------------------------------------------
(* The burst segmenter.                                                    *)

IsTops == fs.product = "SLC" /\ fs.swath # "WV"

\* np.floor(line / float(burst_nlines)).astype('int32')
BurstIndex(line, burst_nlines) == line \div burst_nlines

\* a variant that searches with side='right'
searchsorted_right(a, v) == Cardinality({i \in 1..Len(a) : a[i] <= v})

\* np.searchsorted(a, v, side='left'): how many elements of a are below v
searchsorted_left(a, v) == Cardinality({i \in 1..Len(a) : a[i] < v})

\* a variant that leaves every index as found
ClampIndexNever(found, nsamples) == found

\* lines 925-926: indices past the last sample become the last sample
ClampIndex(found, nsamples) == IF found >= nsamples THEN nsamples - 1 ELSE found

\* lines 912-926: for every image line the (0-based) index of the grid sample
\* it is mapped to
MapLines(geoloc_line, burst_nlines, height) ==
    [l \in 1..height |->
        ClampIndex(searchsorted_left(
                       [i \in 1..Len(geoloc_line) |->
                           BurstIndex(geoloc_line[i], burst_nlines)],
                       BurstIndex(l - 1, burst_nlines)),
                   Len(geoloc_line))]

IndicesFrom(g, meta) ==
    [self |-> g.self,
     res |-> Ok([ind |-> MapLines(g.res.val.atrack, meta.atrack_per_burst,
                                  meta.shape[1]),
                 geoloc_azitime |->
                     [i \in 1..Len(g.res.val.atrack) |->
                         g.res.val.azimuth_time[i][(Len(g.res.val.xtrack) - 1) \div 2 + 1]],
                 geoloc_iburst |->
                     [i \in 1..Len(g.res.val.atrack) |->
                         BurstIndex(g.res.val.atrack[i], meta.atrack_per_burst)],
                 geoloc_line |-> g.res.val.atrack])]

\* Sentinel1Meta._get_indices_bursts for a TOPS product
get_indices_bursts(self) == IndicesFrom(geoloc(self), fs.ann[self.name])

\* line 945: geoloc_azitime[ind] + (atrack - geoloc_line[ind]) * interval,
\* for every image line
AzitimeFrom(idx, meta) ==
    IF ~idx.res.ok THEN idx
    ELSE IF \E l \in 1..Len(idx.res.val.ind) :
                idx.res.val.ind[l] + 1 \notin 1..Len(idx.res.val.geoloc_azitime)
    THEN [self |-> idx.self, res |-> Raise("IndexError")]
    ELSE [self |-> idx.self,
          res |-> Ok([l \in 1..Len(idx.res.val.ind) |->
                        idx.res.val.geoloc_azitime[idx.res.val.ind[l] + 1]
                        + ((l - 1) - idx.res.val.geoloc_line[idx.res.val.ind[l] + 1])
                          * meta.azimuth_time_interval])]

\* lines 947-952: interp1d over the sample lines, which refuses a line
\* outside them
AzitimeInterpolated(g, meta) ==
    IF ~g.res.ok THEN g
    ELSE IF meta.shape[1] - 1 > g.res.val.atrack[Len(g.res.val.atrack)]
    THEN [self |-> g.self, res |-> Raise("ValueError")]
    ELSE [self |-> g.self,
          res |-> Ok([l \in 1..meta.shape[1] |->
                        SplineEv(g.res.val, g.res.val.azimuth_time, RInt(l - 1),
                                 RInt(g.res.val.xtrack[(Len(g.res.val.xtrack) - 1) \div 2 + 1]))])]

\* Sentinel1Meta._burst_azitime
burst_azitime(self) ==
    IF self.multidataset THEN [self |-> self, res |-> Raise("TypeError")]
    ELSE IF IsTops THEN AzitimeFrom(get_indices_bursts(self), fs.ann[self.name])
    ELSE AzitimeInterpolated(geoloc(self), fs.ann[self.name])

\* shapely.geometry.box(minx, miny, maxx, maxy) in (atrack, xtrack): its ring
BoxRing(b) == <<<<RInt(b[3]), RInt(b[2])>>, <<RInt(b[3]), RInt(b[4])>>,
                <<RInt(b[1]), RInt(b[4])>>, <<RInt(b[1]), RInt(b[2])>>>>

\* np.unique: the distinct values, ascending
RECURSIVE SortedSeq(_)
SortedSeq(S) == IF S = {} THEN <<>>
                ELSE <<MinOf(S)>> \o SortedSeq(S \ {MinOf(S)})

\* lines 999-1001: the lines filed under key burst_ind; the table is filled
\* under the mapped sample index uu and read under the loop counter
AzimuthBox(ind, burst_ind, width) ==
    <<MinOf({l \in 1..Len(ind) : ind[l] = burst_ind}) - 1, 0,
      MaxOf({l \in 1..Len(ind) : ind[l] = burst_ind}) - 1, width>>

\* the image-geometry box of burst number burst_ind (0-based), or the error
\* the loop body raises (lines 994-1001)
BurstArea(meta, ind, uniq, burst_ind, only_valid_location) ==
    IF only_valid_location
    THEN IF burst_ind + 1 > Len(meta.valid_location)
         THEN Raise("IndexError")
         ELSE Ok(meta.valid_location[burst_ind + 1])
    ELSE IF burst_ind \notin {uniq[k] : k \in 1..(burst_ind + 1)}
         THEN Raise("KeyError")
         ELSE Ok(AzimuthBox(ind, burst_ind, meta.shape[2]))

RECURSIVE ConvertAreas(_, _, _)

\* one more row of the table: the burst's box and its conversion
ConvertNext(c, areas, done) ==
    ConvertAreas(c.self, Tail(areas),
                 Append(done, [geometry_image |-> Head(areas),
                               geometry |-> c.res.val]))

\* blocks['geometry'] = blocks['geometry_image'].apply(self.coords2ll):
\* one shape conversion per burst, in order
ConvertAreas(self, areas, done) ==
    IF areas = <<>> THEN [self |-> self, res |-> Ok(done)]
    ELSE ConvertNext(coords2ll_shape(self, BoxRing(Head(areas)), FALSE), areas, done)

AreasOrError(self, areas) ==
    IF \E k \in 1..Len(areas) : ~areas[k].ok
    THEN [self |-> self,
          res |-> Raise(areas[MinOf({k \in 1..Len(areas) : ~areas[k].ok})].err)]
    ELSE ConvertAreas(self, [k \in 1..Len(areas) |-> areas[k].val], <<>>)

\* the burst numbers the loop of lines 992-1001 runs over: np.unique(ind),
\* or the single None of a product without index mapping
LoopKeys(idx) ==
    IF IsTops THEN SortedSeq(Range(idx.res.val.ind)) ELSE <<0>>

LoopBursts(idx, meta, only_valid_location) ==
    AreasOrError(idx.self,
                 [k \in 1..Len(LoopKeys(idx)) |->
                     IF IsTops
                     THEN BurstArea(meta, idx.res.val.ind, LoopKeys(idx), k - 1,
                                    only_valid_location)
                     ELSE \* uu = None: only the validity table can be read
                          BurstArea(meta, <<>>, <<-1>>, 0, only_valid_location)])

\* Sentinel1Meta.bursts(only_valid_location) on a single dataset
bursts_single(self, only_valid_location) ==
    IF fs.ann[self.name].number_of_bursts = 0
    THEN [self |-> self, res |-> Ok(<<>>)]
    ELSE LoopBursts(IF IsTops THEN get_indices_bursts(self)
                    ELSE [self |-> self, res |-> Ok(None)],
                    fs.ann[self.name], only_valid_location)

\* lines 981-982: a child's table tagged with the child's dataset id
TagBlock(dsid, table) ==
    [n \in 1..Len(table) |->
        [subswath |-> dsid, burst |-> n - 1,
         geometry_image |-> table[n].geometry_image,
         geometry |-> table[n].geometry]]

RECURSIVE ChildBlocks(_, _, _, _)

\* the table of child k joins the blocks; an empty table has no 'burst'
\* index level to reorder
ChildNext(kids, k, only_valid_location, done, b) ==
    IF ~b.res.ok
    THEN [kids |-> [kids EXCEPT ![k] = b.self], res |-> b.res]
    ELSE IF b.res.val = <<>>
    THEN [kids |-> kids, res |-> Raise("KeyError")]
    ELSE ChildBlocks([kids EXCEPT ![k] = b.self], k + 1, only_valid_location,
                     done \o TagBlock(kids[k].name, b.res.val))

\* the multidataset branch: one block per child instance, then pd.concat
ChildBlocks(kids, k, only_valid_location, done) ==
    IF k > Len(kids)
    THEN [kids |-> kids,
          res |-> IF kids = <<>> THEN Raise("ValueError") ELSE Ok(done)]
    ELSE ChildNext(kids, k, only_valid_location, done,
                   bursts_single(kids[k], only_valid_location))

Concat(self, blocks) == [self |-> [self EXCEPT !.submeta = blocks.kids], res |-> blocks.res]

\* Sentinel1Meta.bursts(only_valid_location)
bursts(self, only_valid_location) ==
    IF self.multidataset
    THEN Concat(self, ChildBlocks(self.submeta, 1, only_valid_location, <<>>))
    ELSE bursts_single(self, only_valid_location)

\* a variant that refuses the aggregate
orbit_refused(self) ==
    IF self.multidataset
    THEN [self |-> self, res |-> Raise("TypeError")]
    ELSE [self |-> self, res |-> Ok(Some(fs.ann[self.name].orbit))]

\* Sentinel1Meta.orbit
orbit(self) ==
    IF self.multidataset
    THEN [self |-> self, res |-> Ok(None)]
    ELSE [self |-> self, res |-> Ok(Some(fs.ann[self.name].orbit))]

-----------------------------------------------------------------------------
(* The SAFE products of the model, as the metadata provider returns them.  *)

\* a longitude as an annotation file gives it, in [-180, 180)
Wrap180(v) == ((v + 180) % 360) - 180

\* a geolocation grid over the given sample lines and pixels: longitude
\* grows by lonstep degrees per sample pixel from lon0, latitude is the line
\* number, azimuth time is ten units per line
Grid(atrack, xtrack, lon0, lonstep) ==
    [atrack |-> atrack, xtrack |-> xtrack,
     longitude |-> [i \in 1..Len(atrack) |->
                       [j \in 1..Len(xtrack) |-> Wrap180(lon0 + lonstep * (j - 1))]],
     latitude |-> [i \in 1..Len(atrack) |-> [j \in 1..Len(xtrack) |-> atrack[i]]],
     altitude |-> [i \in 1..Len(atrack) |-> [j \in 1..Len(xtrack) |-> 0]],
     azimuth_time |-> [i \in 1..Len(atrack) |->
                          [j \in 1..Len(xtrack) |-> 10 * atrack[i]]]]

\* the annotation of one dataset: nbursts bursts of nlines lines each
Annotation(grid, nbursts, nlines, height, width) ==
    [grid |-> grid,
     shape |-> <<height, width>>,
     number_of_bursts |-> nbursts,
     atrack_per_burst |-> nlines,
     valid_location |-> [b \in 1..nbursts |->
                            <<(b - 1) * nlines, 0, b * nlines - 1, width - 1>>],
     azimuth_time_interval |-> 10,
     orbit |-> "orbit"]

\* the sample lines of a TOPS grid as the products have them: the first line
\* of every burst, then the last line of the image
TopsLines(nbursts, nlines) ==
    [k \in 1..(nbursts + 1) |-> IF k <= nbursts THEN (k - 1) * nlines
                                 ELSE nbursts * nlines - 1]

ImageWidth == 3
SamplePixels == <<0, ImageWidth - 1>>

\* a SAFE holding one TOPS dataset
SingleSafe(ann) ==
    [dsids |-> <<"IW1">>, footprints |-> <<Box(0, 0, 2, 3)>>,
     product |-> "SLC", swath |-> "IW",
     ann |-> [d \in {"IW1"} |-> ann]]

\* a TOPS SAFE of two sub-swaths, with the footprints its manifest gives
TopsSafe(manifest_footprints) ==
    [dsids |-> <<"IW1", "IW2">>, footprints |-> manifest_footprints,
     product |-> "SLC", swath |-> "IW",
     ann |-> [d \in {"IW1", "IW2"} |->
                 Annotation(Grid(TopsLines(2, 2), SamplePixels,
                                 IF d = "IW1" THEN 0 ELSE 2, 1),
                            2, 2, 4, ImageWidth)]]

\* a wave-mode SAFE of two imagettes, one manifest footprint per imagette
WaveSafe ==
    [dsids |-> <<"WV1", "WV2">>,
     footprints |-> <<Box(0, 0, 1, 1), Box(5, 5, 6, 6)>>,
     product |-> "SLC", swath |-> "WV",
     ann |-> [d \in {"WV1", "WV2"} |->
                 Annotation(Grid(<<0, 3>>, SamplePixels,
                                 IF d = "WV1" THEN 0 ELSE 5, 1),
                            0, 0, 4, ImageWidth)]]

DefaultMasks == [k \in {"land"} |-> LandFeature]

-----------------------------------------------------------------------------
(* The calls a client makes.  Every call is one step; i names an instance. *)

CanCall == ncalls < MaxCalls

\* the step of a call on instance i that touches no dict
Returns(i, op, args, r) ==
    /\ inst' = [inst EXCEPT ![i] = r.self]
    /\ ret' = [op |-> op, i |-> i, args |-> args, res |-> r.res]
    /\ ncalls' = ncalls + 1
    /\ UNCHANGED <<fs, cls_raw, heap, descs>>

\* a dataset of the SAFE whose image and grid give instance i's call inputs
AnyName(i) == IF inst[i].multidataset THEN fs.dsids[1] ELSE inst[i].name

\* the corner pixels of the image of instance i, and its centre pixel
PixelPoints(i) ==
    LET shape == fs.ann[AnyName(i)].shape
    IN  {<<RInt(a), RInt(x)>> : a \in {0, shape[1] - 1}, x \in {0, shape[2] - 1}}
            \cup {<<RInt((shape[1] - 1) \div 2), RInt((shape[2] - 1) \div 2)>>}

\* the ring of the whole image of instance i
ImageRing(i) ==
    LET shape == fs.ann[AnyName(i)].shape
    IN  BoxRing(<<0, 0, shape[1] - 1, shape[2] - 1>>)

\* geographic points of the grid of instance i: its first sample, and a
\* point one line after its last pixel sample
GeoPoints(i) ==
    LET g == fs.ann[AnyName(i)].grid
    IN  {<<RInt(g.longitude[1][1]), RInt(g.latitude[1][1])>>,
         <<RInt(g.longitude[1][Len(g.xtrack)]), RInt(g.latitude[1][1] + 1)>>}

Geoloc(i) ==
    /\ CanCall
    /\ Returns(i, "geoloc", <<>>, geoloc(inst[i]))

CrossAntemeridian(i) ==
    /\ CanCall
    /\ Returns(i, "cross_antemeridian", <<>>, cross_antemeridian(inst[i]))

ApproxTransform(i) ==
    /\ CanCall
    /\ Returns(i, "approx_transform", <<>>, approx_transform(inst[i]))

Footprint(i) ==
    /\ CanCall
    /\ Returns(i, "footprint", <<>>, footprint(inst[i]))

Coverage(i) ==
    /\ CanCall
    /\ Returns(i, "coverage", <<>>, coverage(inst[i]))

Coords2ll(i) ==
    /\ CanCall
    /\ \E pt \in PixelPoints(i), approx \in BOOLEAN :
          Returns(i, "coords2ll", <<approx, pt>>, coords2ll(inst[i], <<pt>>, approx))

\* the shapes given to coords2ll: the ring of the whole image, and the ring
\* from the first pixel to the centre pixel
Shapes(i) ==
    LET shape == fs.ann[AnyName(i)].shape
    IN  {ImageRing(i), BoxRing(<<0, 0, (shape[1] - 1) \div 2, (shape[2] - 1) \div 2>>)}

Coords2llShape(i) ==
    /\ CanCall
    /\ \E approx \in BOOLEAN, shape \in Shapes(i) :
          Returns(i, "coords2ll_shape", <<approx, shape>>,
                  coords2ll_shape(inst[i], shape, approx))

Ll2coords(i) ==
    /\ CanCall
    /\ \E ll \in GeoPoints(i) :
          Returns(i, "ll2coords", <<ll>>, ll2coords(inst[i], <<ll>>))

\* lon, lat = meta.coords2ll(line, pixel) followed by
\* meta.ll2coords(lon, lat): the inverse called on what the last accurate
\* coords2ll returned
Ll2coordsBack(i) ==
    /\ CanCall
    /\ ret.op = "coords2ll"
    /\ ret.i = i
    /\ ret.res.ok
    /\ ~ret.args[1]
    /\ Returns(i, "ll2coords", <<ret.res.val[1]>>, ll2coords(inst[i], ret.res.val))

Coords2heading(i) ==
    /\ CanCall
    /\ \E pt \in PixelPoints(i), approx \in BOOLEAN :
          Returns(i, "coords2heading", <<approx>>,
                  coords2heading(inst[i], <<pt>>, approx))

Orbit(i) ==
    /\ CanCall
    /\ Returns(i, "orbit", <<>>, orbit(inst[i]))

Bursts(i) ==
    /\ CanCall
    /\ \E only_valid_location \in BOOLEAN :
          Returns(i, "bursts", <<only_valid_location>>,
                  bursts(inst[i], only_valid_location))

\* Sentinel1Meta._get_indices_bursts(): four None when the product is not
\* TOPS
GetIndicesBursts(i) ==
    /\ CanCall
    /\ Returns(i, "_get_indices_bursts", <<>>,
               IF IsTops THEN get_indices_bursts(inst[i])
               ELSE [self |-> inst[i], res |-> Ok(None)])

BurstAzitime(i) ==
    /\ CanCall
    /\ Returns(i, "_burst_azitime", <<>>, burst_azitime(inst[i]))

\* the step of a call on instance i that may write dicts
ReturnsHeap(i, op, args, r) ==
    /\ inst' = [inst EXCEPT ![i] = r.self]
    /\ heap' = r.heap
    /\ ret' = [op |-> op, i |-> i, args |-> args, res |-> r.res]
    /\ ncalls' = ncalls + 1
    /\ UNCHANGED <<fs, cls_raw, descs>>

GetMask(i) ==
    /\ CanCall
    /\ \E name \in MaskNames :
          ReturnsHeap(i, "get_mask", <<name>>, get_mask(inst[i], heap, name))

SetMaskFeature(i) ==
    /\ CanCall
    /\ \E name \in MaskNames, feature \in MaskSources :
          /\ heap' = set_mask_feature_instance(inst[i], heap, name, feature)
          /\ ret' = [op |-> "set_mask_feature", i |-> i,
                     args |-> <<name, feature>>, res |-> Ok(None)]
    /\ ncalls' = ncalls + 1
    /\ UNCHANGED <<fs, cls_raw, inst, descs>>

SetMaskFeatureClass ==
    /\ CanCall
    /\ \E name \in MaskNames, feature \in MaskSources :
          /\ cls_raw' = set_mask_feature_class(cls_raw, name, feature)
          /\ ret' = [op |-> "cls.set_mask_feature", i |-> 0,
                     args |-> <<name, feature>>, res |-> Ok(None)]
    /\ ncalls' = ncalls + 1
    /\ UNCHANGED <<fs, heap, inst, descs>>

\* Sentinel1Meta(name)
Construct ==
    /\ CanCall
    /\ Len(inst) < MaxInst
    /\ \E name \in {""} \cup Range(fs.dsids) :
          /\ inst' = Append(inst, Sentinel1Meta_init(name, <<>>, heap).self)
          /\ heap' = Sentinel1Meta_init(name, <<>>, heap).heap
          /\ ret' = [op |-> "Sentinel1Meta", i |-> Len(inst) + 1,
                         args |-> <<name>>, res |-> Ok(None)]
    /\ ncalls' = ncalls + 1
    /\ UNCHANGED <<fs, cls_raw, descs>>

\* d = meta.dict, kept by the caller
Dict(i) ==
    /\ CanCall
    /\ descs' = Append(descs, dict(inst[i], heap).desc)
    /\ heap' = dict(inst[i], heap).heap
    /\ ret' = [op |-> "dict", i |-> i, args |-> <<>>,
               res |-> Ok(dict(inst[i], heap).desc)]
    /\ ncalls' = ncalls + 1
    /\ UNCHANGED <<fs, cls_raw, inst>>

\* the caller writes a descriptor by hand: for the mask "land", any of the
\* three cache slots filled or empty
UserDict ==
    /\ CanCall
    /\ descs = <<>>
    /\ \E name \in Range(fs.dsids), f, g, p \in BOOLEAN :
          LET base == Len(heap)
              slot(filled, v) == [k \in {"land"} |-> IF filled THEN Some(v) ELSE None]
          IN  /\ heap' = heap \o <<DefaultMasks,
                                    slot(f, [geoms |-> SourceGeometries(LandFeature)]),
                                    slot(g, {EmptyPolygon}),
                                    slot(p, EmptyPolygon)>>
              /\ descs' = Append(descs, [name |-> name, raw |-> base + 1,
                                         feats |-> base + 2, inter |-> base + 3,
                                         geom |-> base + 4])
              /\ ret' = [op |-> "user_dict", i |-> 0, args |-> <<f, g, p>>,
                         res |-> Ok(None)]
    /\ ncalls' = ncalls + 1
    /\ UNCHANGED <<fs, cls_raw, inst>>

\* the step of Sentinel1Meta.from_dict(descs[k])
Rebuilt(k, r) ==
    /\ inst' = IF r.res.ok THEN Append(inst, r.self) ELSE inst
    /\ heap' = r.heap
    /\ ret' = [op |-> "from_dict", i |-> IF r.res.ok THEN Len(inst) + 1 ELSE 0,
               args |-> <<k>>, res |-> r.res]

\* Sentinel1Meta.from_dict(d) for a descriptor d at hand
FromDict ==
    /\ CanCall
    /\ Len(inst) < MaxInst
    /\ \E k \in 1..Len(descs) : Rebuilt(k, from_dict(descs[k], heap))
    /\ ncalls' = ncalls + 1
    /\ UNCHANGED <<fs, cls_raw, descs>>

-----------------------------------------------------------------------------
(* Specification of one single-dataset instance and its geometry calls,    *)
(* over grids that do and do not cross the antemeridian.                   *)

MaxLonStep == 2
GeoLonStarts == {10, 178, 179}

GeoSafes ==
    {SingleSafe(Annotation(Grid(TopsLines(2, 2), SamplePixels, lon0, lonstep),
                           2, 2, 4, ImageWidth)) :
        lon0 \in GeoLonStarts, lonstep \in 1..MaxLonStep}

InitGeo ==
    /\ fs \in GeoSafes
    /\ cls_raw = DefaultMasks
    /\ inst = <<Sentinel1Meta_init("IW1", <<>>, <<>>).self>>
    /\ heap = Sentinel1Meta_init("IW1", <<>>, <<>>).heap
    /\ descs = <<>>
    /\ ret = [op |-> "Sentinel1Meta", i |-> 1, args |-> <<"IW1">>, res |-> Ok(None)]
    /\ ncalls = 0

NextGeo ==
    \/ Geoloc(1)
    \/ CrossAntemeridian(1)
    \/ ApproxTransform(1)
    \/ Footprint(1)
    \/ Coverage(1)
    \/ Coords2ll(1)
    \/ Coords2llShape(1)
    \/ Ll2coords(1)
    \/ Coords2heading(1)
    \/ GetMask(1)
    \/ Bursts(1)

SpecGeo == InitGeo /\ [][NextGeo]_vars

\* the conversions alone: point, shape and inverse
NextSpline ==
    \/ Coords2ll(1)
    \/ Coords2llShape(1)
    \/ Ll2coords(1)

SpecSpline == InitGeo /\ [][NextSpline]_vars

\* the round trip: a pixel converted, and the result converted back
NextRound ==
    \/ Coords2ll(1)
    \/ Ll2coordsBack(1)
    \/ ApproxTransform(1)

SpecRound == InitGeo /\ [][NextRound]_vars

-----------------------------------------------------------------------------
(* Specification of the masks: instances of one single-dataset SAFE, the   *)
(* class defaults, descriptors and the instances rebuilt from them.        *)

MaskSafe ==
    SingleSafe(Annotation(Grid(TopsLines(2, 2), SamplePixels, 0, 1),
                          2, 2, 4, ImageWidth))

InitMask ==
    /\ fs = MaskSafe
    /\ cls_raw = DefaultMasks
    /\ inst = <<>>
    /\ heap = <<>>
    /\ descs = <<>>
    /\ ret = [op |-> "none", i |-> 0, args |-> <<>>, res |-> Ok(None)]
    /\ ncalls = 0

NextMask ==
    \/ Construct
    \/ SetMaskFeatureClass
    \/ UserDict
    \/ FromDict
    \/ \E i \in 1..Len(inst) : SetMaskFeature(i)
    \/ \E i \in 1..Len(inst) : GetMask(i)
    \/ \E i \in 1..Len(inst) : Dict(i)

SpecMask == InitMask /\ [][NextMask]_vars

\* a descriptor as Sentinel1Meta.dict writes it (the class defaults as
\* definitions, every cache slot null), received from elsewhere, and the
\* instances rebuilt from it
InitShared ==
    /\ fs = MaskSafe
    /\ cls_raw = DefaultMasks
    /\ inst = <<>>
    /\ heap = <<DefaultMasks,
                [k \in DOMAIN DefaultMasks |-> None],
                [k \in DOMAIN DefaultMasks |-> None],
                [k \in DOMAIN DefaultMasks |-> None]>>
    /\ descs = <<[name |-> "IW1", raw |-> 1, feats |-> 2, inter |-> 3, geom |-> 4]>>
    /\ ret = [op |-> "none", i |-> 0, args |-> <<>>, res |-> Ok(None)]
    /\ ncalls = 0

NextShared ==
    \/ FromDict
    \/ \E i \in 1..Len(inst) : SetMaskFeature(i)
    \/ \E i \in 1..Len(inst) : GetMask(i)

SpecShared == InitShared /\ [][NextShared]_vars

-----------------------------------------------------------------------------
(* Specification of the resolver: the instance built over a SAFE of        *)
(* several sub-products, whose manifest gives one footprint per            *)
(* sub-product or a single one, and every call on it.                      *)

MultiSafes ==
    {TopsSafe(<<Box(0, 0, 3, 3)>>),
     TopsSafe(<<Box(0, 0, 4, 3)>>),
     TopsSafe(<<Box(0, 0, 1, 3), Box(2, 0, 3, 3)>>),
     WaveSafe}

InitMulti ==
    /\ fs \in MultiSafes
    /\ cls_raw = DefaultMasks
    /\ inst = <<Sentinel1Meta_init("", <<>>, <<>>).self>>
    /\ heap = Sentinel1Meta_init("", <<>>, <<>>).heap
    /\ descs = <<>>
    /\ ret = [op |-> "Sentinel1Meta", i |-> 1, args |-> <<"">>, res |-> Ok(None)]
    /\ ncalls = 0

NextMulti ==
    \/ Geoloc(1)
    \/ CrossAntemeridian(1)
    \/ ApproxTransform(1)
    \/ Footprint(1)
    \/ Coverage(1)
    \/ Coords2ll(1)
    \/ Ll2coords(1)
    \/ Coords2heading(1)
    \/ Orbit(1)
    \/ Bursts(1)
    \/ GetMask(1)

SpecMulti == InitMulti /\ [][NextMulti]_vars

-----------------------------------------------------------------------------
(* Specification of the burst segmenter: one TOPS dataset of N bursts of L *)
(* lines, with the grid's sample lines placed anywhere in the image.       *)

\* every placement of at least two sample lines, the first on line 0
LinePlacements(height) ==
    {SortedSeq(S \cup {0}) : S \in (SUBSET (1..height)) \ {{}}}

BurstSafes ==
    UNION {{SingleSafe(Annotation(Grid(lines, SamplePixels, 0, 1),
                                  n, l, n * l, ImageWidth)) :
               lines \in LinePlacements(n * l)} :
           n \in 1..MaxBursts, l \in 1..MaxLinesPerBurst}

InitBurst ==
    /\ fs \in BurstSafes
    /\ cls_raw = DefaultMasks
    /\ inst = <<Sentinel1Meta_init("IW1", <<>>, <<>>).self>>
    /\ heap = Sentinel1Meta_init("IW1", <<>>, <<>>).heap
    /\ descs = <<>>
    /\ ret = [op |-> "Sentinel1Meta", i |-> 1, args |-> <<"IW1">>, res |-> Ok(None)]
    /\ ncalls = 0

NextBurst ==
    \/ Geoloc(1)
    \/ Bursts(1)

SpecBurst == InitBurst /\ [][NextBurst]_vars

\* the mapping of image lines to grid samples alone, and the azimuth times
\* looked up through it
NextIndex ==
    \/ Geoloc(1)
    \/ GetIndicesBursts(1)
    \/ BurstAzitime(1)

SpecIndex == InitBurst /\ [][NextIndex]_vars

-----------------------------------------------------------------------------
(* Properties of the conversions (SpecGeo, SpecSpline).                    *)

\* the grid of a dataset crosses the antemeridian, as the annotation gives it
CrossesAsRead(name) ==
    MaxOf(Samples(fs.ann[name].grid.longitude))
        - MinOf(Samples(fs.ann[name].grid.longitude)) > 180

InRange180(lon) == RLe(RInt(-180), lon) /\ RLt(lon, RInt(180))

\* C1: on a single dataset whose grid crosses the antemeridian as read,
\* every longitude an accurate coords2ll returns lies in [-180, 180), at the
\* first call and at every later one.
C1_AccurateLongitudesWrapped ==
    (/\ ret.op = "coords2ll"
     /\ ~ret.args[1]
     /\ ret.res.ok
     /\ CrossesAsRead(inst[ret.i].name))
    => \A k \in 1..Len(ret.res.val) : InRange180(ret.res.val[k][1])

SplinesBuiltBy(r) ==
    IF r.op = "coords2ll" /\ r.args[1] THEN 0 ELSE 1

C10_GridNeverChanges ==
    (ret.op = "geoloc" /\ ret.res.ok)
    => ret.res.val = BuildGeoloc(fs.ann[inst[ret.i].name].grid)

RAbs(p) == IF p[1] < 0 THEN RNeg(p) ELSE p

\* pt lies within tol of the pixel px on each axis
Within(pt, px, tol) ==
    /\ RLe(RAbs(RSub(pt[1], px[1])), tol)
    /\ RLe(RAbs(RSub(pt[2], px[2])), tol)

\* pt is on each axis no farther from the pixel px than other is
NoFarther(pt, other, px) ==
    /\ RLe(RAbs(RSub(pt[1], px[1])), RAbs(RSub(other[1], px[1])))
    /\ RLe(RAbs(RSub(pt[2], px[2])), RAbs(RSub(other[2], px[2])))

\* the inverse of approx_transform alone, applied to a point
ApproxInverse(self, ll) ==
    AffineApply(AffineInvert(BuildGeoloc(fs.ann[self.name].grid).attrs.approx_transform),
                ll[1], ll[2])

\* a ll2coords call has just returned for what the accurate coords2ll before
\* it returned
RoundTripped ==
    /\ ret.op = "coords2ll"
    /\ ~ret.args[1]
    /\ ret.res.ok
    /\ ret'.op = "ll2coords"
    /\ ret'.res.ok
    /\ ret'.args = <<ret.res.val[1]>>

\* C13: for every pixel inside the grid's extent,
\* ll2coords(coords2ll(line, pixel)) is within half a pixel of (line, pixel)
\* on each axis, and no farther from it than the inverse of approx_transform
\* alone.
C13_RoundTripWithinTolerance ==
    [][RoundTripped
       => /\ Within(ret'.res.val[1], ret.args[2], <<1, 2>>)
          /\ NoFarther(ret'.res.val[1],
                       ApproxInverse(inst[ret.i], ret.res.val[1]), ret.args[2])]_vars

\* p0 - (p1 - p0)
OneShotFrom(p0, p1) ==
    <<RSub(p0[1], RSub(p1[1], p0[1])), RSub(p0[2], RSub(p1[2], p0[2]))>>

\* p0 is the inverse of approx_transform at ll, p1 the inverse of
\* approx_transform at the accurate coords2ll of p0
OneShotAt(self, ll, p0) ==
    OneShotFrom(p0, ApproxInverse(self, coords2ll(self, <<p0>>, FALSE).res.val[1]))

OneShot(self, ll) == OneShotAt(self, ll, ApproxInverse(self, ll))

\* C15: ll2coords(lon, lat) is one fixed correction: with p0 the inverse of
\* approx_transform at (lon, lat) and p1 the inverse of approx_transform at
\* the accurate coords2ll of p0, it returns p0 - (p1 - p0), after exactly
\* two applications of the inverse transform and at most two spline
\* evaluations.
C15_OneShotCorrection ==
    [][(ret'.op = "ll2coords" /\ ret'.res.ok)
       => /\ ret'.res.val = <<OneShot(inst[ret'.i], ret'.args[1])>>
          /\ inst'[ret'.i].work.inverses = inst[ret'.i].work.inverses + 2
          /\ inst'[ret'.i].work.evals <= inst[ret'.i].work.evals + 2]_vars

\* a ll2coords call returned a point that the correction moved away from
\* the first estimate
C15_Witness ==
    /\ ret.op = "ll2coords"
    /\ ret.res.ok
    /\ inst[ret.i].work.inverses = 2
    /\ inst[ret.i].work.evals = 2
    /\ ret.res.val[1] # ApproxInverse(inst[ret.i], ret.args[1])

\* approx_transform applied to a vertex
ApproxForward(self, v) ==
    AffineApply(BuildGeoloc(fs.ann[self.name].grid).attrs.approx_transform, v[1], v[2])

\* C16: coords2ll called on a shape honours the approx flag: with
\* approx=True every vertex of the result is approx_transform applied to the
\* input vertex, with approx=False it is the accurate conversion of the
\* input vertex.
C16_ShapeHonoursApprox ==
    [][(ret'.op = "coords2ll_shape" /\ ret'.res.ok)
       => \A k \in 1..Len(ret'.args[2]) :
             ret'.res.val[k] =
                IF ret'.args[1]
                THEN ApproxForward(inst[ret'.i], ret'.args[2][k])
                ELSE coords2ll(inst[ret'.i], <<ret'.args[2][k]>>, FALSE).res.val[1]]_vars

-----------------------------------------------------------------------------
(* Properties of the masks and the descriptor (SpecMask).                  *)

\* the definitions and the three caches of an instance
MaskTables(self, h) == <<h[self.raw], h[self.feats], h[self.inter], h[self.geom]>>

\* C2: an instance-level set_mask_feature on one instance leaves the mask
\* definitions and the three caches of every other instance unchanged, also
\* when one was rebuilt from the other's descriptor.
C2_InstanceMasksIsolated ==
    [][ret'.op = "set_mask_feature"
       => \A j \in 1..Len(inst) :
             j # ret'.i => MaskTables(inst[j], heap') = MaskTables(inst[j], heap)]_vars

\* C3: from_dict accepts a descriptor only if, for every defined mask name,
\* all three cache slots are null.
C3_FromDictRejectsFilled ==
    (ret.op = "from_dict" /\ ret.res.ok)
    => \A k \in DOMAIN heap[descs[ret.args[1]].raw] :
          /\ IsNone(heap[descs[ret.args[1]].feats][k])
          /\ IsNone(heap[descs[ret.args[1]].inter][k])
          /\ IsNone(heap[descs[ret.args[1]].geom][k])

\* the stored polygon of a mask of an instance, None when there is none
StoredPolygon(self, h, name) ==
    IF name \in DOMAIN h[self.geom] THEN h[self.geom][name] ELSE None

\* C4: a get_mask(name) that returns stores a non-null polygon (the empty
\* polygon when nothing intersects the footprint); the stored polygon stays
\* until a set_mask_feature; and a get_mask(name) that finds it returns it
\* without loading the feature or computing the intersection again.
C4_MaskStoredAndReused ==
    [][\A i \in 1..Len(inst), name \in MaskNames :
          /\ (ret'.op = "get_mask" /\ ret'.i = i /\ ret'.args = <<name>> /\ ret'.res.ok)
             => StoredPolygon(inst'[i], heap', name) = Some(ret'.res.val)
          /\ (/\ ret'.op = "get_mask" /\ ret'.i = i /\ ret'.args = <<name>>
              /\ ~IsNone(StoredPolygon(inst[i], heap, name)))
             => /\ ret'.res = Ok(Get(StoredPolygon(inst[i], heap, name)))
                /\ inst'[i].work.loads = inst[i].work.loads
                /\ inst'[i].work.intersections = inst[i].work.intersections
                /\ heap' = heap
          /\ (~IsNone(StoredPolygon(inst[i], heap, name)) /\ ret'.op # "set_mask_feature")
             => StoredPolygon(inst'[i], heap', name) = StoredPolygon(inst[i], heap, name)]_vars

\* a second get_mask of a mask that intersects nothing: the empty polygon,
\* from the store, after one load and one intersection
C4_Witness ==
    /\ ret.op = "get_mask"
    /\ ret.res.ok
    /\ ret.res.val = EmptyPolygon
    /\ inst[ret.i].work.hits = 1
    /\ inst[ret.i].work.loads = 1
    /\ inst[ret.i].work.intersections = 1

\* every defined mask name has its three cache slots, all null
AllUnresolved(defs, feats, inter, geom) ==
    \A k \in DOMAIN defs :
        /\ k \in DOMAIN feats /\ IsNone(feats[k])
        /\ k \in DOMAIN inter /\ IsNone(inter[k])
        /\ k \in DOMAIN geom /\ IsNone(geom[k])

\* the descriptor d of an instance carries its name and definitions, with
\* every cache slot null
DescriptorOf(self, h, d) ==
    /\ d.desc.name = self.name
    /\ d.heap[d.desc.raw] = h[self.raw]
    /\ AllUnresolved(h[self.raw], d.heap[d.desc.feats],
                     d.heap[d.desc.inter], d.heap[d.desc.geom])

\* the instance r rebuilt from a descriptor has the name and definitions of
\* the instance the descriptor was taken from, and nothing resolved
RebuiltLike(self, h, r) ==
    /\ r.res.ok
    /\ r.self.name = self.name
    /\ r.heap[r.self.raw] = h[self.raw]
    /\ AllUnresolved(h[self.raw], r.heap[r.self.feats],
                     r.heap[r.self.inter], r.heap[r.self.geom])
    /\ IsNone(r.self.geoloc)

RoundTrip(self, h, d) ==
    /\ DescriptorOf(self, h, d)
    /\ RebuiltLike(self, h, from_dict(d.desc, d.heap))

\* C11: in every reachable state of an instance, whatever masks have been
\* registered or resolved, the descriptor dict returns carries the name, the
\* mask definitions and, for each defined name, three null cache slots; and
\* from_dict of that descriptor yields an instance of the same name and
\* definitions with every cache unresolved.
C11_DescriptorRoundTrip ==
    \A i \in 1..Len(inst) : RoundTrip(inst[i], heap, dict(inst[i], heap))

\* an instance was rebuilt from the descriptor of an instance that had
\* resolved its mask "land": it shares the definitions and has nothing
\* resolved
C11_Witness ==
    /\ ret.op = "from_dict"
    /\ ret.res.ok
    /\ \E j \in 1..Len(inst) :
          /\ j # ret.i
          /\ inst[j].raw = inst[ret.i].raw
          /\ inst[j].work.loads = 1
          /\ ~IsNone(StoredPolygon(inst[j], heap, "land"))
          /\ IsNone(StoredPolygon(inst[ret.i], heap, "land"))

\* C12: a class-level set_mask_feature(name, source) changes the class
\* default table and nothing else: the definitions and the caches of every
\* instance already constructed stay as they are; every instance
\* Sentinel1Meta(...) constructs afterwards has each class default
\* registered with its three cache slots null; and the class table holds
\* sources only, never a resolved result.
C12_ClassDefaultsOnly ==
    [][/\ ret'.op = "cls.set_mask_feature"
          => /\ cls_raw' = DictSet(cls_raw, ret'.args[1], ret'.args[2])
             /\ inst' = inst
             /\ heap' = heap
       /\ ret'.op = "Sentinel1Meta"
          => /\ heap'[inst'[ret'.i].raw] = cls_raw
             /\ AllUnresolved(cls_raw, heap'[inst'[ret'.i].feats],
                              heap'[inst'[ret'.i].inter], heap'[inst'[ret'.i].geom])
             /\ \A j \in 1..Len(inst) :
                   MaskTables(inst'[j], heap') = MaskTables(inst[j], heap)
       /\ \A k \in DOMAIN cls_raw' : cls_raw'[k] \in MaskSources]_vars

\* an instance constructed after a class-level registration of "ocean" has
\* it unresolved, while the instance constructed before, whose "land" is
\* resolved, does not have it
C12_Witness ==
    /\ ret.op = "Sentinel1Meta"
    /\ ret.i = 2
    /\ "ocean" \in DOMAIN cls_raw
    /\ "ocean" \in DOMAIN heap[inst[2].raw]
    /\ IsNone(heap[inst[2].geom]["ocean"])
    /\ "ocean" \notin DOMAIN heap[inst[1].raw]
    /\ ~IsNone(StoredPolygon(inst[1], heap, "land"))

\* a cache slot of a mask name holds a value
Resolved(table, name) == name \in DOMAIN table /\ ~IsNone(table[name])

\* the stage of a mask name of an instance
Stage(self, h, name) ==
    IF Resolved(h[self.geom], name) THEN "FINAL"
    ELSE IF Resolved(h[self.inter], name) THEN "INTERSECTED"
    ELSE IF Resolved(h[self.feats], name) THEN "FEATURE_LOADED"
    ELSE "UNRESOLVED"

\* final polygon resolved implies intersecting geometries resolved implies
\* feature loaded
StagesInOrder(self, h, name) ==
    /\ Resolved(h[self.geom], name) => Resolved(h[self.inter], name)
    /\ Resolved(h[self.inter], name) => Resolved(h[self.feats], name)

\* C14: for every mask name of every instance the stages are reached in the
\* order UNRESOLVED, FEATURE_LOADED, INTERSECTED, FINAL, and a name goes
\* back to UNRESOLVED only through an instance-level set_mask_feature for
\* that name on that instance.
C14_MaskStages ==
    [][\A i \in 1..Len(inst), name \in MaskNames :
          /\ StagesInOrder(inst'[i], heap', name)
          /\ (Stage(inst[i], heap, name) # "UNRESOLVED"
               /\ Stage(inst'[i], heap', name) = "UNRESOLVED")
             => (ret'.op = "set_mask_feature" /\ ret'.i = i /\ ret'.args[1] = name)]_vars

\* the slot of a name is the same in two versions of a table
SameSlot(t1, t2, name) ==
    /\ (name \in DOMAIN t1) = (name \in DOMAIN t2)
    /\ name \in DOMAIN t1 => t1[name] = t2[name]

\* the mask a source gives on a footprint: what it holds, cut by the footprint
FreshMask(source, fp) == (UNION SourceGeometries(source)) \cap fp

\* C20: an instance-level set_mask_feature(name, source) leaves the three
\* cache slots of that name null and the slots of every other name of the
\* instance as they were, and the get_mask(name) that follows is computed
\* from the new source: it returns what the new source gives on the
\* footprint, or fails when the new source is no feature.
C20_RedefinitionResets ==
    [][/\ ret'.op = "set_mask_feature"
          => /\ heap'[inst[ret'.i].raw][ret'.args[1]] = ret'.args[2]
             /\ AllUnresolved([k \in {ret'.args[1]} |-> ret'.args[2]],
                              heap'[inst[ret'.i].feats], heap'[inst[ret'.i].inter],
                              heap'[inst[ret'.i].geom])
             /\ \A other \in MaskNames \ {ret'.args[1]} :
                   /\ SameSlot(heap'[inst[ret'.i].feats], heap[inst[ret'.i].feats], other)
                   /\ SameSlot(heap'[inst[ret'.i].inter], heap[inst[ret'.i].inter], other)
                   /\ SameSlot(heap'[inst[ret'.i].geom], heap[inst[ret'.i].geom], other)
       /\ (/\ ret.op = "set_mask_feature"
           /\ ret'.op = "get_mask"
           /\ ret'.i = ret.i
           /\ ret'.args[1] = ret.args[1])
          => ret'.res =
                IF IsStr(ret.args[2]) \/ IsFeature(ret.args[2])
                THEN Ok(FreshMask(ret.args[2], footprint(inst[ret.i]).res.val))
                ELSE Raise("TypeError")]_vars

\* the mask "land" was resolved from the land feature, redefined as the
\* coast file, and resolved again: the second answer is the coast's cell,
\* after a second load
C20_Witness ==
    /\ ret.op = "get_mask"
    /\ ret.args = <<"land">>
    /\ ret.res.ok
    /\ heap[inst[ret.i].raw]["land"] = CoastFile
    /\ ret.res.val = {<<1, 0>>}
    /\ inst[ret.i].work.loads = 2
    /\ inst[ret.i].work.hits = 0

\* C21: in every state reached by construction, class- and instance-level
\* set_mask_feature, get_mask, dict and from_dict, the four mask tables of
\* every instance (definitions, loaded features, intersecting geometries,
\* final polygons) have the same names, and a get_mask(name) for a name of
\* the instance's definitions does not fail for a missing cache slot.
C21_MaskTablesSameNames ==
    /\ \A i \in 1..Len(inst) :
          /\ DOMAIN heap[inst[i].feats] = DOMAIN heap[inst[i].raw]
          /\ DOMAIN heap[inst[i].inter] = DOMAIN heap[inst[i].raw]
          /\ DOMAIN heap[inst[i].geom] = DOMAIN heap[inst[i].raw]
    /\ (ret.op = "get_mask" /\ ret.args[1] \in DOMAIN heap[inst[ret.i].raw])
       => ret.res.err # "KeyError"

-----------------------------------------------------------------------------
(* Properties of the resolver (SpecMulti).                                 *)

PixelOps == {"geoloc", "approx_transform", "cross_antemeridian",
             "coords2ll", "ll2coords", "coords2heading"}

\* C5: on a multidataset instance every pixel-level geometry operation
\* raises (TypeError) and returns nothing, and the instance and its mask
\* tables are as before the call.
C5_AggregateHasNoPixelGeometry ==
    [][(ret'.op \in PixelOps /\ inst[ret'.i].multidataset)
       => /\ ~ret'.res.ok
          /\ ret'.res.err = "TypeError"
          /\ inst' = inst
          /\ heap' = heap]_vars

\* coords2heading has been refused on a multidataset instance
C5_Witness ==
    /\ ret.op = "coords2heading"
    /\ inst[ret.i].multidataset
    /\ ~ret.res.ok

ChildBursts(self) ==
    SeqSum([k \in 1..Len(self.submeta) |->
               fs.ann[self.submeta[k].name].number_of_bursts])

C7_FootprintIsUnionOfSubdatasets ==
    (ret.op = "footprint" /\ inst[ret.i].multidataset)
    => ret.res.val = unary_union(Range(inst[ret.i].subdatasets))

\* C19: the construction of a multidataset instance recurses to depth one
\* at most: every child the fallback builds from the SAFE's list of
\* sub-products is a single dataset with a non-empty file list, and holds no
\* children of its own.
C19_ChildrenAreLeaves ==
    \A i \in 1..Len(inst) :
        \A k \in 1..Len(inst[i].submeta) :
            /\ inst[i].multidataset
            /\ ~inst[i].submeta[k].multidataset
            /\ ~FilesEmpty(inst[i].submeta[k].name)
            /\ inst[i].submeta[k].name = fs.dsids[k]
            /\ inst[i].submeta[k].submeta = <<>>

\* the instance of a SAFE whose manifest gives a single footprint for two
\* sub-products was constructed through the fallback, with one child each
C19_Witness ==
    /\ ret.op = "Sentinel1Meta"
    /\ ret.res.ok
    /\ Len(fs.footprints) # Len(fs.dsids)
    /\ inst[1].multidataset
    /\ Len(inst[1].submeta) = Len(fs.dsids)
    /\ Len(inst[1].submeta) = 2

-----------------------------------------------------------------------------
(* Properties of the burst segmenter (SpecBurst, SpecIndex).               *)

\* the line spans of the rows follow each other from line 0 to the last line
CoversLines(table, height) ==
    /\ table # <<>>
    /\ table[1].geometry_image[1] = 0
    /\ table[Len(table)].geometry_image[3] = height - 1
    /\ \A n \in 1..Len(table) :
          table[n].geometry_image[1] <= table[n].geometry_image[3]
    /\ \A n \in 1..(Len(table) - 1) :
          table[n + 1].geometry_image[1] = table[n].geometry_image[3] + 1

\* C8: on a TOPS dataset of N declared bursts, bursts returns exactly N
\* bursts wherever the sample lines of the grid are; with
\* only_valid_location = False their line spans are contiguous, disjoint and
\* cover the image.
C8_BurstPartition ==
    ret.op = "bursts"
    => /\ ret.res.ok
       /\ Len(ret.res.val) = fs.ann[inst[ret.i].name].number_of_bursts
       /\ ret.args = <<FALSE>>
          => CoversLines(ret.res.val, fs.ann[inst[ret.i].name].shape[1])

\* the burst index of the grid sample an image line is mapped to, and the
\* burst index of the line itself (l and the mapped index are 0-based)
SampleBurst(idx, l) == idx.geoloc_iburst[idx.ind[l + 1] + 1]

OwnBurst(name, l) == BurstIndex(l, fs.ann[name].atrack_per_burst)

\* C17 as the specification words it: every image line is mapped to a grid
\* sample of the line's own burst or of an earlier one.
C17_SameOrEarlierBurst ==
    (ret.op = "_get_indices_bursts" /\ ret.res.ok)
    => \A l \in 0..(Len(ret.res.val.ind) - 1) :
          SampleBurst(ret.res.val, l) <= OwnBurst(inst[ret.i].name, l)

\* the samples whose burst index is not below that of line l
NotBelow(idx, name, l) ==
    {k \in 1..Len(idx.geoloc_iburst) : idx.geoloc_iburst[k] >= OwnBurst(name, l)}

\* C17, amended: every image line is mapped to the first grid sample whose
\* burst index is not below the line's own burst index (a sample of the
\* same burst when the grid has one there, of a later burst otherwise), and
\* to the last grid sample when every sample is of an earlier burst.
C17_FirstSampleNotBelow ==
    (ret.op = "_get_indices_bursts" /\ ret.res.ok)
    => \A l \in 0..(Len(ret.res.val.ind) - 1) :
          ret.res.val.ind[l + 1] + 1 =
             IF NotBelow(ret.res.val, inst[ret.i].name, l) = {}
             THEN Len(ret.res.val.geoloc_iburst)
             ELSE MinOf(NotBelow(ret.res.val, inst[ret.i].name, l))

\* a line of a burst without grid sample was mapped to a sample of a later
\* burst, and another line to a sample of its own burst
C17_Witness ==
    /\ ret.op = "_get_indices_bursts"
    /\ ret.res.ok
    /\ \E l \in 0..(Len(ret.res.val.ind) - 1) :
          SampleBurst(ret.res.val, l) > OwnBurst(inst[ret.i].name, l)
    /\ \E l \in 0..(Len(ret.res.val.ind) - 1) :
          SampleBurst(ret.res.val, l) = OwnBurst(inst[ret.i].name, l)

\* what the left-biased search finds for line l, before the clamp
Found(idx, name, l) == searchsorted_left(idx.geoloc_iburst, OwnBurst(name, l))

\* C18: the mapped sample indices all lie in [0, number of samples - 1], an
\* index found past the last sample being replaced by the last one and every
\* other left as found; neither the mapping nor the azimuth-time lookup that
\* uses it raises, also when the image extends past the grid's last sample.
C18_IndicesClamped ==
    /\ ret.op \in {"_get_indices_bursts", "_burst_azitime"} => ret.res.ok
    /\ ret.op = "_get_indices_bursts"
       => \A l \in 0..(Len(ret.res.val.ind) - 1) :
             /\ ret.res.val.ind[l + 1] \in 0..(Len(ret.res.val.geoloc_azitime) - 1)
             /\ ret.res.val.ind[l + 1] =
                   IF Found(ret.res.val, inst[ret.i].name, l)
                          > Len(ret.res.val.geoloc_azitime) - 1
                   THEN Len(ret.res.val.geoloc_azitime) - 1
                   ELSE Found(ret.res.val, inst[ret.i].name, l)

\* the azimuth times were looked up for an image whose last burst has no
\* grid sample, so that its lines were found past the last sample
C18_Witness ==
    /\ ret.op = "_burst_azitime"
    /\ ret.res.ok
    /\ \E l \in 0..(Len(ret.res.val) - 1) :
          \A k \in 1..Len(fs.ann[inst[ret.i].name].grid.atrack) :
              BurstIndex(fs.ann[inst[ret.i].name].grid.atrack[k],
                         fs.ann[inst[ret.i].name].atrack_per_burst)
                 < OwnBurst(inst[ret.i].name, l)

====
